---- MODULE Spec2Model ----
(***************************************************************************)
(* Model of the two Stripe webhook receivers of kennndev/auth:             *)
(*   app/api/stripe-webhook/route.ts          (sale receiver)              *)
(*   app/api/webhooks/stripe-credits/route.ts (credits receiver)           *)
(* The state is the shared relational store (transactions, listings,       *)
(* assets, profiles, payouts, credits ledger), the process environment,    *)
(* and one record per request in flight holding the position of its        *)
(* handler.  Every await on the store or on the provider is one step, so   *)
(* that requests interleave exactly where the code yields.  Timestamps     *)
(* (updated_at, scheduled_at) are not part of the state.                   *)
(***************************************************************************)
EXTENDS Integers, Sequences, FiniteSets, TLC

VARIABLES env, reqs, delivered, faults,
          transactions, listings, assets, profiles, payouts, ledger,
          replay

db == <<transactions, listings, assets, profiles, payouts, ledger>>
vars == <<env, reqs, delivered, faults,
          transactions, listings, assets, profiles, payouts, ledger, replay>>

(* ------------------------------ bounds --------------------------------- *)

\* request slots (requests that may be in flight at once)
MaxReq == 2
\* webhook deliveries in one behaviour
MaxDeliveries == 2
\* store / provider faults injected in one behaviour
MaxFaults == 1

Slots == 1..MaxReq

(* ----------------------------- universe -------------------------------- *)

\* SQL NULL / JS null / JS undefined
Null == "null"

\* an optional number is <<>> (null/undefined) or <<n>>
Nullish(x, d) == IF x = <<>> THEN d ELSE x[1]

Max(a, b) == IF a >= b THEN a ELSE b

Users == {"u1", "u2", "s1", "s2"}
TxIds == {"t1", "t2", "t3", "t4"}
ListingIds == {"L1", "L2"}
AssetIds == {"a1", "a2"}

\* The provider's canonical payment intents (what paymentIntents.retrieve
\* returns, and what a payment_intent.* event carries as its payload).
PaymentIds == {"pi_1", "pi_2", "pi_3", "pi_4", "pi_5", "pi_6"}

Metadata(l, b, s) == [mkt_listing_id |-> l, mkt_buyer_id |-> b, mkt_seller_id |-> s]

PaymentIntent(id) ==
  CASE id = "pi_1" -> [id |-> id, metadata |-> Metadata("L1", "u1", "s1"),
                       amount |-> 5, amount_received |-> <<3>>,
                       application_fee_amount |-> <<1>>]
    [] id = "pi_2" -> [id |-> id, metadata |-> Metadata("L1", "u2", "s2"),
                       amount |-> 2, amount_received |-> <<>>,
                       application_fee_amount |-> <<>>]
    [] id = "pi_3" -> [id |-> id, metadata |-> Metadata("L2", "u1", "s1"),
                       amount |-> 1, amount_received |-> <<1>>,
                       application_fee_amount |-> <<2>>]
    [] id = "pi_4" -> [id |-> id, metadata |-> Metadata("L2", "u2", "s1"),
                       amount |-> 2, amount_received |-> <<2>>,
                       application_fee_amount |-> <<1>>]
    [] id = "pi_5" -> [id |-> id, metadata |-> Metadata("L2", "u2", Null),
                       amount |-> 3, amount_received |-> <<3>>,
                       application_fee_amount |-> <<1>>]
    [] OTHER       -> [id |-> id, metadata |-> Metadata("L2", Null, "s1"),
                       amount |-> 2, amount_received |-> <<2>>,
                       application_fee_amount |-> <<1>>]

\* statuses a payment intent can have at the provider / in an event payload
PIStatuses == {"succeeded", "requires_payment_method"}

\* how an object embeds its payment intent: absent, an id, an expanded object
PIRef(form, id) == [form |-> form, id |-> id]
PIRefs == {PIRef("none", Null), PIRef("string", "pi_1"), PIRef("object", "pi_1")}

\* typeof ref === "string" ? ref : ref?.id   (undefined when absent)
RefId(ref) == IF ref.form = "string" THEN ref.id
              ELSE IF ref.form = "object" THEN ref.id ELSE Null

PIEventTypes == {"payment_intent.succeeded", "payment_intent.payment_failed",
                 "payment_intent.canceled"}
AccountEventTypes == {"account.updated", "capability.updated",
                      "account.application.authorized"}

\* provider accounts carried by account events; currently_due is the length
\* of requirements.currently_due
Account(id, userId, charges, payouts_, due) ==
  [id |-> id, charges_enabled |-> charges, payouts_enabled |-> payouts_,
   currently_due |-> due, metadata |-> [user_id |-> userId]]

Accounts == {Account("acct_2", "s2", TRUE, TRUE, 0), Account("acct_2", "s2", TRUE, TRUE, 1),
             Account("acct_1", Null, TRUE, TRUE, 0), Account("acct_1", Null, FALSE, TRUE, 0),
             Account("acct_1", Null, TRUE, FALSE, 0)}

\* the events the sale endpoint may be sent
SaleEvents ==
  {[type |-> "payment_intent.succeeded", obj |-> PaymentIntent(p) @@ [status |-> "succeeded"]] :
      p \in PaymentIds}
  \cup {[type |-> "payment_intent.succeeded",
         obj |-> PaymentIntent("pi_1") @@ [status |-> "requires_payment_method"]]}
  \cup {[type |-> "payment_intent.payment_failed",
         obj |-> PaymentIntent(p) @@ [status |-> "requires_payment_method"]] :
          p \in PaymentIds}
  \cup {[type |-> "payment_intent.canceled",
         obj |-> PaymentIntent(p) @@ [status |-> "canceled"]] : p \in {"pi_1", "pi_2"}}
  \cup {[type |-> "checkout.session.async_payment_failed",
         obj |-> [id |-> "cs_1", payment_intent |-> ref,
                  metadata |-> PaymentIntent("pi_1").metadata]] : ref \in PIRefs}
  \cup {[type |-> "charge.refunded", obj |-> [id |-> "ch_1", payment_intent |-> ref]] :
          ref \in PIRefs}
  \cup {[type |-> "account.updated", obj |-> a] : a \in Accounts}
  \cup {[type |-> t, obj |-> Account("acct_2", "s2", TRUE, TRUE, 0)] :
          t \in AccountEventTypes}
  \cup {[type |-> "customer.created", obj |-> [id |-> "cus_1"]]}

NoEvent == [type |-> Null, obj |-> [id |-> Null]]

(* --------------------------- environment ------------------------------- *)

\* process.env of a deployment: the four signing secrets and the store
\* credentials (present or not)
Env(sp, sc, cp, cc, url, key) ==
  [sale_primary |-> sp, sale_connect |-> sc, credits_primary |-> cp,
   credits_connect |-> cc, supabase_url |-> url,
   next_public_supabase_url |-> TRUE, service_key |-> key]

Envs == {Env("whsec_sp", "whsec_sc", "whsec_cp", "whsec_cc", TRUE, TRUE),
         Env("whsec_sp", Null, "whsec_cp", Null, TRUE, TRUE),
         Env(Null, "whsec_sc", Null, "whsec_cc", TRUE, TRUE),
         Env(Null, Null, Null, Null, TRUE, TRUE),
         Env("whsec_sp", "whsec_sc", "whsec_cp", "whsec_cc", FALSE, TRUE),
         Env("whsec_sp", "whsec_sc", "whsec_cp", "whsec_cc", TRUE, FALSE)}

\* the secret a payload was signed with, as far as verification can tell
SaleSigs == {"whsec_sp", "whsec_sc", "whsec_bad"}
CreditsSigs == {"whsec_cp", "whsec_cc", "whsec_bad"}

\* stripe.webhooks.constructEvent(raw, sig, secret) returns the event when the
\* signature was made with that secret and throws otherwise
ConstructEvent(sig, secret) == sig = secret

\* Gate taking an unverifiable payload when only the primary secret is set
GateOpenWithoutConnect(primary, connect, sig) ==
  IF primary = Null /\ connect = Null THEN 500
  ELSE IF primary # Null /\ ConstructEvent(sig, primary) THEN 0
  ELSE IF connect = Null THEN 0
  ELSE IF ConstructEvent(sig, connect) THEN 0
  ELSE 400

\* The signature gate of both POST handlers: 500 (no secret), 400 (bad
\* signature) or 0 (the event is constructed and the request goes on).
Gate(primary, connect, sig) ==
  IF primary = Null /\ connect = Null THEN 500
  ELSE IF primary # Null /\ ConstructEvent(sig, primary) THEN 0
  ELSE IF connect = Null THEN 400
  ELSE IF ConstructEvent(sig, connect) THEN 0
  ELSE 400

\* the sale route's module-level createClient(url!, key!) needs both values
SaleLoaded == env.next_public_supabase_url /\ env.service_key

(* ------------------------------ requests ------------------------------- *)

NoSrc == [source_type |-> Null, source_id |-> Null]

IdleReq == [pc |-> "idle", receiver |-> Null, sig |-> Null, event |-> NoEvent,
            status |-> 0, fresh |-> Null, ops |-> {}, failed |-> {},
            threw |-> FALSE, src |-> NoSrc, acct |-> Null, current |-> 0]

\* what a fallible call may do now (a fault consumes the fault budget)
Outcomes == IF faults < MaxFaults THEN {"ok", "error"} ELSE {"ok"}

Charge(o) == faults' = IF o = "error" THEN faults + 1 ELSE faults

\* JS truthiness of an optional string
Truthy(x) == x # Null /\ x # ""

\* PostgREST .eq(column, value): an equality that NULL never satisfies
Eq(col, v) == v # Null /\ col = v

\* request r moves to pc p having attempted store operation op with outcome o
Attempt(req, op, o, p) ==
  [req EXCEPT !.pc = p, !.ops = @ \cup {op},
              !.failed = IF o = "error" THEN @ \cup {op} ELSE @]

(* ------------------------------- Init ---------------------------------- *)

InitTransactions ==
  [t \in TxIds |->
     CASE t = "t1" -> [stripe_payment_id |-> "pi_1", listing_id |-> "L1",
                       buyer_id |-> "u1", status |-> "pending"]
       [] t = "t2" -> [stripe_payment_id |-> Null, listing_id |-> "L1",
                       buyer_id |-> "u2", status |-> "pending"]
       [] t = "t3" -> [stripe_payment_id |-> "pi_3", listing_id |-> "L2",
                       buyer_id |-> "u1", status |-> "pending"]
       [] OTHER    -> [stripe_payment_id |-> "pi_4", listing_id |-> "L2",
                       buyer_id |-> "u2", status |-> "pending"]]

InitListings ==
  [l \in ListingIds |->
     IF l = "L1"
     THEN [source_type |-> "asset", source_id |-> "a1", buyer_id |-> Null,
           status |-> "active", is_active |-> TRUE]
     ELSE [source_type |-> "uploaded_image", source_id |-> "up1", buyer_id |-> Null,
           status |-> "active", is_active |-> TRUE]]

InitAssets ==
  [a \in AssetIds |->
     IF a = "a1"
     THEN [owner_id |-> "s1", source_type |-> "uploaded_image", source_id |-> "up0"]
     ELSE [owner_id |-> "s1", source_type |-> "uploaded_image", source_id |-> "up1"]]

NoProfile == [exists |-> FALSE, email |-> Null, stripe_account_id |-> Null,
              stripe_verified |-> FALSE, is_seller |-> FALSE, credits |-> 0]

InitProfiles ==
  [u \in Users |->
     CASE u = "u1" -> [NoProfile EXCEPT !.exists = TRUE, !.email = "u1@example.com",
                                        !.credits = 1]
       [] u = "s1" -> [NoProfile EXCEPT !.exists = TRUE, !.email = "s1@example.com",
                                        !.stripe_account_id = "acct_1",
                                        !.stripe_verified = TRUE, !.is_seller = TRUE]
       [] u = "s2" -> [NoProfile EXCEPT !.exists = TRUE, !.email = "s2@example.com"]
       [] OTHER    -> NoProfile]

\* what the provider holds of a delivery it repeats: the event, and for
\* comparison the two tables as they were before it and as its first
\* handling left them.  Nothing is held until a delivery is repeated.
Replay(ev, n, ls, txs1, ls1) ==
  [event |-> ev, handled |-> n, held |-> ls, transactions |-> txs1, listings |-> ls1]

NoReplay == Replay(NoEvent, 0, <<>>, <<>>, <<>>)

Init ==
  /\ env \in Envs
  /\ reqs = [r \in Slots |-> IdleReq]
  /\ delivered = 0
  /\ faults = 0
  /\ transactions = InitTransactions
  /\ listings = InitListings
  /\ assets = InitAssets
  /\ profiles = InitProfiles
  /\ payouts = <<>>
  /\ ledger = {}
  /\ replay = NoReplay

\* a delivery is taken by the lowest free slot
FreeSlot(r) ==
  /\ reqs[r].pc = "idle"
  /\ \A s \in Slots : s < r => reqs[s].pc # "idle"
  /\ delivered < MaxDeliveries

(* --------------------------- sale receiver ----------------------------- *)

\* POST: the request arrives (raw body and stripe-signature header are read)
SaleReceive(r) ==
  /\ FreeSlot(r)
  /\ SaleLoaded
  /\ \E sig \in SaleSigs, ev \in SaleEvents :
       reqs' = [reqs EXCEPT ![r] = [IdleReq EXCEPT !.pc = "verify", !.receiver = "sale",
                                                   !.sig = sig, !.event = ev]]
  /\ delivered' = delivered + 1
  /\ UNCHANGED <<env, replay, faults, db>>

\* markSellerReadiness starts with the upsert only when metadata.user_id is set
ReadinessStart(acct) == IF Truthy(acct.metadata.user_id) THEN "upsert" ELSE "acct_update"

\* the switch on event.type: the first await of the handler it selects
SaleDispatch(ev) ==
  CASE ev.type = "payment_intent.succeeded" -> "retrieve"
    [] ev.type \in {"payment_intent.payment_failed", "payment_intent.canceled",
                    "checkout.session.async_payment_failed", "charge.refunded"}
         -> "fail_tx"
    [] ev.type \in AccountEventTypes -> ReadinessStart(ev.obj)
    [] OTHER -> "respond"

\* POST: the signature gate, then the dispatch
SaleVerify(r) ==
  /\ reqs[r].pc = "verify" /\ reqs[r].receiver = "sale"
  /\ LET g == Gate(env.sale_primary, env.sale_connect, reqs[r].sig) IN
       reqs' = [reqs EXCEPT ![r] =
                  IF g # 0 THEN [@ EXCEPT !.pc = "done", !.status = g, !.event = NoEvent]
                  ELSE [@ EXCEPT !.pc = SaleDispatch(reqs[r].event), !.sig = Null]]
  /\ UNCHANGED <<env, replay, delivered, faults, db>>

(* ---- settlement: handlePaymentIntentSucceeded ---- *)

\* Math.max(0, Number(amount_received ?? amount) - Number(application_fee_amount ?? 0))
NetCents(pi) ==
  Max(0, Nullish(pi.amount_received, pi.amount) - Nullish(pi.application_fee_amount, 0))

\* AfterRetrieve trusting the status the event payload carries
AfterRetrieveTrustsPayload(payload, fresh) ==
  IF payload.status # "succeeded" THEN "respond"
  ELSE IF ~Truthy(fresh.metadata.mkt_listing_id) \/ ~Truthy(fresh.metadata.mkt_buyer_id)
       THEN "respond"
  ELSE "tx_by_id"

\* where the settlement stands once retrieve() has returned `fresh`: it goes
\* on only if fresh.status is succeeded and fresh.metadata names a listing and
\* a buyer.  The event's own payload is not consulted.
AfterRetrieve(payload, fresh) ==
  IF fresh.status # "succeeded" THEN "respond"
  ELSE IF ~Truthy(fresh.metadata.mkt_listing_id) \/ ~Truthy(fresh.metadata.mkt_buyer_id)
       THEN "respond"
  ELSE "tx_by_id"

\* step 0: re-fetch the payment intent.  retrieve() may throw.
Retrieve(r) ==
  /\ reqs[r].pc = "retrieve"
  /\ \E o \in Outcomes, st \in PIStatuses :
       /\ Charge(o)
       /\ LET payload == reqs[r].event.obj
              fresh == PaymentIntent(payload.id) @@ [status |-> st]
          IN reqs' = [reqs EXCEPT ![r] =
               IF o = "error" THEN [@ EXCEPT !.pc = "respond", !.threw = TRUE]
               ELSE [@ EXCEPT !.pc = AfterRetrieve(payload, fresh), !.fresh = st]]
  /\ UNCHANGED <<env, replay, delivered, db>>

\* the re-fetched payment intent of a settlement past step 0
Fresh(req) == PaymentIntent(req.event.obj.id)

\* update({status: completed}).eq(stripe_payment_id, stripeId)
CompleteByStripeId(txs, stripeId) ==
  [t \in DOMAIN txs |->
     IF Eq(txs[t].stripe_payment_id, stripeId)
     THEN [txs[t] EXCEPT !.status = "completed"] ELSE txs[t]]

\* the rows the update by stripe id returns (.select("id"))
MatchedByStripeId(txs, stripeId) ==
  {t \in DOMAIN txs : Eq(txs[t].stripe_payment_id, stripeId)}

\* CompleteFallback without the status filter
CompleteFallbackAnyStatus(txs, stripeId, listingId, buyerId) ==
  [t \in DOMAIN txs |->
     IF /\ Eq(txs[t].listing_id, listingId)
        /\ Eq(txs[t].buyer_id, buyerId)
     THEN [txs[t] EXCEPT !.status = "completed", !.stripe_payment_id = stripeId]
     ELSE txs[t]]

\* update({status: completed, stripe_payment_id}).eq(listing_id).eq(buyer_id).eq(status, pending)
CompleteFallback(txs, stripeId, listingId, buyerId) ==
  [t \in DOMAIN txs |->
     IF /\ Eq(txs[t].listing_id, listingId)
        /\ Eq(txs[t].buyer_id, buyerId)
        /\ Eq(txs[t].status, "pending")
     THEN [txs[t] EXCEPT !.status = "completed", !.stripe_payment_id = stripeId]
     ELSE txs[t]]

\* step 1: complete the transaction by stripe id; the fallback follows when
\* the update returned no row (also when it returned an error)
TxByStripeId(r) ==
  /\ reqs[r].pc = "tx_by_id"
  /\ \E o \in Outcomes :
       /\ Charge(o)
       /\ LET id == Fresh(reqs[r]).id
              hit == o = "ok" /\ MatchedByStripeId(transactions, id) # {}
          IN /\ transactions' = IF o = "ok" THEN CompleteByStripeId(transactions, id)
                                ELSE transactions
             /\ reqs' = [reqs EXCEPT ![r] =
                  Attempt(@, "tx_by_id", o, IF hit THEN "listing_sold" ELSE "tx_fallback")]
  /\ UNCHANGED <<env, replay, delivered, listings, assets, profiles, payouts, ledger>>

TxFallback(r) ==
  /\ reqs[r].pc = "tx_fallback"
  /\ \E o \in Outcomes :
       /\ Charge(o)
       /\ LET pi == Fresh(reqs[r]) IN
          transactions' = IF o = "ok"
                          THEN CompleteFallback(transactions, pi.id,
                                 pi.metadata.mkt_listing_id, pi.metadata.mkt_buyer_id)
                          ELSE transactions
       /\ reqs' = [reqs EXCEPT ![r] = Attempt(@, "tx_fallback", o, "listing_sold")]
  /\ UNCHANGED <<env, replay, delivered, listings, assets, profiles, payouts, ledger>>

\* MarkSold leaving the listing active
MarkSoldStillActive(ls, listingId, buyerId) ==
  [l \in DOMAIN ls |->
     IF Eq(l, listingId)
     THEN [ls[l] EXCEPT !.buyer_id = buyerId, !.status = "sold"]
     ELSE ls[l]]

\* update({buyer_id, status: sold, is_active: false}).eq(id, listingId)
MarkSold(ls, listingId, buyerId) ==
  [l \in DOMAIN ls |->
     IF Eq(l, listingId)
     THEN [ls[l] EXCEPT !.buyer_id = buyerId, !.status = "sold", !.is_active = FALSE]
     ELSE ls[l]]

\* step 2: mark the listing sold
ListingSold(r) ==
  /\ reqs[r].pc = "listing_sold"
  /\ \E o \in Outcomes :
       /\ Charge(o)
       /\ LET md == Fresh(reqs[r]).metadata IN
          listings' = IF o = "ok" THEN MarkSold(listings, md.mkt_listing_id, md.mkt_buyer_id)
                      ELSE listings
       /\ reqs' = [reqs EXCEPT ![r] = Attempt(@, "listing_sold", o, "asset_lookup")]
  /\ UNCHANGED <<env, replay, delivered, transactions, assets, profiles, payouts, ledger>>

\* PayoutStart without the check of the net amount
PayoutStartAnyNet(sellerId, netCents) ==
  IF ~Truthy(sellerId) THEN "respond" ELSE "seller_lookup"

\* queuePayoutIfPossible returns at once without a seller id or a positive net
PayoutStart(sellerId, netCents) ==
  IF ~Truthy(sellerId) \/ netCents = 0 \/ netCents <= 0 THEN "respond" ELSE "seller_lookup"

\* AfterTransfer giving up the payout once an earlier step has failed
AfterTransferStopsOnFailure(req) ==
  IF req.failed # {} THEN "respond"
  ELSE PayoutStart(Fresh(req).metadata.mkt_seller_id, NetCents(Fresh(req)))

\* step 4 follows the transfer whatever the transfer did
AfterTransfer(req) ==
  PayoutStart(Fresh(req).metadata.mkt_seller_id, NetCents(Fresh(req)))

\* step 3a (transferAssetToBuyer): select the listing's source descriptor;
\* an error or a missing row ends the transfer
AssetLookup(r) ==
  /\ reqs[r].pc = "asset_lookup"
  /\ \E o \in Outcomes :
       /\ Charge(o)
       /\ LET l == Fresh(reqs[r]).metadata.mkt_listing_id
              found == o = "ok" /\ l \in DOMAIN listings
          IN reqs' = [reqs EXCEPT ![r] =
               IF found
               THEN [Attempt(@, "asset_lookup", o, "asset_update")
                       EXCEPT !.src = [source_type |-> listings[l].source_type,
                                       source_id |-> listings[l].source_id]]
               ELSE Attempt(@, "asset_lookup", "error", AfterTransfer(@))]
  /\ UNCHANGED <<env, replay, delivered, db>>

\* update({owner_id}).eq(id, source_id) for an asset listing, else
\* update({owner_id}).eq(source_type, uploaded_image).eq(source_id, source_id)
TransferOwner(as, src, buyerId) ==
  [a \in DOMAIN as |->
     IF \/ src.source_type = "asset" /\ Eq(a, src.source_id)
        \/ /\ src.source_type # "asset"
           /\ Eq(as[a].source_type, "uploaded_image")
           /\ Eq(as[a].source_id, src.source_id)
     THEN [as[a] EXCEPT !.owner_id = buyerId] ELSE as[a]]

\* step 3b: set the asset's owner
AssetUpdate(r) ==
  /\ reqs[r].pc = "asset_update"
  /\ \E o \in Outcomes :
       /\ Charge(o)
       /\ assets' = IF o = "ok"
                    THEN TransferOwner(assets, reqs[r].src,
                                       Fresh(reqs[r]).metadata.mkt_buyer_id)
                    ELSE assets
       /\ reqs' = [reqs EXCEPT ![r] = Attempt(@, "asset_update", o, AfterTransfer(@))]
  /\ UNCHANGED <<env, replay, delivered, transactions, listings, profiles, payouts, ledger>>

\* step 4a (queuePayoutIfPossible): select the seller's stripe_account_id;
\* an error, a missing row or a missing account id ends the step
SellerLookup(r) ==
  /\ reqs[r].pc = "seller_lookup"
  /\ \E o \in Outcomes :
       /\ Charge(o)
       /\ LET s == Fresh(reqs[r]).metadata.mkt_seller_id
              found == o = "ok" /\ s \in DOMAIN profiles /\ profiles[s].exists
          IN reqs' = [reqs EXCEPT ![r] =
               IF ~found THEN Attempt(@, "seller_lookup", "error", "respond")
               ELSE IF ~Truthy(profiles[s].stripe_account_id)
                    THEN Attempt(@, "seller_lookup", o, "respond")
               ELSE [Attempt(@, "seller_lookup", o, "payout_insert")
                       EXCEPT !.acct = profiles[s].stripe_account_id]]
  /\ UNCHANGED <<env, replay, delivered, db>>

\* the row queuePayoutIfPossible inserts (scheduled_at left out)
PayoutRow(listingId, acct, netCents) ==
  [listing_id |-> listingId, stripe_account_id |-> acct,
   amount_cents |-> netCents, status |-> "pending"]

\* step 4b: insert the payout
PayoutInsert(r) ==
  /\ reqs[r].pc = "payout_insert"
  /\ \E o \in Outcomes :
       /\ Charge(o)
       /\ payouts' = IF o = "ok"
                     THEN Append(payouts, PayoutRow(Fresh(reqs[r]).metadata.mkt_listing_id,
                                                    reqs[r].acct, NetCents(Fresh(reqs[r]))))
                     ELSE payouts
       /\ reqs' = [reqs EXCEPT ![r] = Attempt(@, "payout_insert", o, "respond")]
  /\ UNCHANGED <<env, replay, delivered, transactions, listings, assets, profiles, ledger>>

(* ---- reversal: handlePaymentIntentFailed, handleChargeRefunded, markTxFailed ---- *)

\* the arguments markTxFailed is called with, by event type
ReversalArgs(ev) ==
  CASE ev.type \in {"payment_intent.payment_failed", "payment_intent.canceled"} ->
         [stripeId |-> ev.obj.id, listingId |-> ev.obj.metadata.mkt_listing_id,
          buyerId |-> ev.obj.metadata.mkt_buyer_id]
    [] ev.type = "checkout.session.async_payment_failed" ->
         [stripeId |-> IF RefId(ev.obj.payment_intent) # Null
                       THEN RefId(ev.obj.payment_intent) ELSE ev.obj.id,
          listingId |-> ev.obj.metadata.mkt_listing_id,
          buyerId |-> ev.obj.metadata.mkt_buyer_id]
    [] OTHER ->
         [stripeId |-> IF RefId(ev.obj.payment_intent) # Null
                       THEN RefId(ev.obj.payment_intent) ELSE "",
          listingId |-> Null, buyerId |-> Null]

\* FailByStripeId of a two-stage policy: a row already failed becomes refunded
FailByStripeIdEscalating(txs, stripeId) ==
  [t \in DOMAIN txs |->
     IF Eq(txs[t].stripe_payment_id, stripeId)
     THEN [txs[t] EXCEPT !.status = IF @ = "failed" THEN "refunded" ELSE "failed"]
     ELSE txs[t]]

\* update({status: failed}).eq(stripe_payment_id, stripeId)
FailByStripeId(txs, stripeId) ==
  [t \in DOMAIN txs |->
     IF Eq(txs[t].stripe_payment_id, stripeId)
     THEN [txs[t] EXCEPT !.status = "failed"] ELSE txs[t]]

\* markTxFailed, first await: mark the transaction failed (the result is not
\* inspected); the listing update follows only with a listing id
FailTx(r) ==
  /\ reqs[r].pc = "fail_tx"
  /\ \E o \in Outcomes :
       /\ Charge(o)
       /\ LET a == ReversalArgs(reqs[r].event) IN
          /\ transactions' = IF o = "ok" THEN FailByStripeId(transactions, a.stripeId)
                             ELSE transactions
          /\ reqs' = [reqs EXCEPT ![r] =
               Attempt(@, "fail_tx", o,
                       IF Truthy(a.listingId) THEN "release_listing" ELSE "respond")]
  /\ UNCHANGED <<env, replay, delivered, listings, assets, profiles, payouts, ledger>>

\* Release without the buyer_id filter
ReleaseAnyBuyer(ls, listingId, buyerId) ==
  [l \in DOMAIN ls |->
     IF Eq(l, listingId)
     THEN [ls[l] EXCEPT !.buyer_id = Null, !.status = "active", !.is_active = TRUE]
     ELSE ls[l]]

\* Release dropping the buyer_id filter when no buyer id is given
ReleaseWhateverBuyerIfNone(ls, listingId, buyerId) ==
  [l \in DOMAIN ls |->
     IF Eq(l, listingId) /\ (buyerId = Null \/ Eq(ls[l].buyer_id, buyerId))
     THEN [ls[l] EXCEPT !.buyer_id = Null, !.status = "active", !.is_active = TRUE]
     ELSE ls[l]]

\* update({buyer_id: null, status: active, is_active: true})
\*   .eq(id, listingId).eq(buyer_id, buyerId ?? null)
Release(ls, listingId, buyerId) ==
  [l \in DOMAIN ls |->
     IF Eq(l, listingId) /\ Eq(ls[l].buyer_id, buyerId)
     THEN [ls[l] EXCEPT !.buyer_id = Null, !.status = "active", !.is_active = TRUE]
     ELSE ls[l]]

\* markTxFailed, second await: put the listing back
ReleaseListing(r) ==
  /\ reqs[r].pc = "release_listing"
  /\ \E o \in Outcomes :
       /\ Charge(o)
       /\ LET a == ReversalArgs(reqs[r].event) IN
          listings' = IF o = "ok" THEN Release(listings, a.listingId, a.buyerId)
                      ELSE listings
       /\ reqs' = [reqs EXCEPT ![r] = Attempt(@, "release_listing", o, "respond")]
  /\ UNCHANGED <<env, replay, delivered, transactions, assets, profiles, payouts, ledger>>

(* ---- account readiness: markSellerReadiness ---- *)

\* Verified without the currently-due requirements
VerifiedIgnoresRequirements(acct) ==
  acct.charges_enabled = TRUE /\ acct.payouts_enabled = TRUE

\* verified = charges_enabled === true && payouts_enabled === true &&
\*            (requirements?.currently_due ?? []).length === 0
Verified(acct) ==
  acct.charges_enabled = TRUE /\ acct.payouts_enabled = TRUE /\ acct.currently_due = 0

\* upsert({id, email: null, stripe_account_id, stripe_verified, is_seller}, onConflict id)
UpsertSeller(ps, userId, acct) ==
  [ps EXCEPT ![userId] = [@ EXCEPT !.exists = TRUE, !.email = Null,
                                   !.stripe_account_id = acct.id,
                                   !.stripe_verified = Verified(acct),
                                   !.is_seller = Verified(acct)]]

SellerUpsert(r) ==
  /\ reqs[r].pc = "upsert"
  /\ \E o \in Outcomes :
       /\ Charge(o)
       /\ LET acct == reqs[r].event.obj IN
          profiles' = IF o = "ok" THEN UpsertSeller(profiles, acct.metadata.user_id, acct)
                      ELSE profiles
       /\ reqs' = [reqs EXCEPT ![r] = Attempt(@, "upsert", o, "acct_update")]
  /\ UNCHANGED <<env, replay, delivered, transactions, listings, assets, payouts, ledger>>

\* update({stripe_verified, is_seller}).eq(stripe_account_id, acct.id)
UpdateByAccount(ps, acct) ==
  [u \in DOMAIN ps |->
     IF ps[u].exists /\ Eq(ps[u].stripe_account_id, acct.id)
     THEN [ps[u] EXCEPT !.stripe_verified = Verified(acct), !.is_seller = Verified(acct)]
     ELSE ps[u]]

AccountUpdate(r) ==
  /\ reqs[r].pc = "acct_update"
  /\ \E o \in Outcomes :
       /\ Charge(o)
       /\ profiles' = IF o = "ok" THEN UpdateByAccount(profiles, reqs[r].event.obj)
                      ELSE profiles
       /\ reqs' = [reqs EXCEPT ![r] = Attempt(@, "acct_update", o, "respond")]
  /\ UNCHANGED <<env, replay, delivered, transactions, listings, assets, payouts, ledger>>

\* POST: whatever the handler did (a thrown error is caught and logged), the
\* answer is NextResponse.json({received: true})
\* ResponseStatus surfacing a thrown handler error
ResponseStatusSurfacesThrow(req) == IF req.threw THEN 500 ELSE 200

\* the status of NextResponse.json({received: true})
ResponseStatus(req) == 200

SaleRespond(r) ==
  /\ reqs[r].pc = "respond" /\ reqs[r].receiver = "sale"
  /\ reqs' = [reqs EXCEPT ![r] = [@ EXCEPT !.pc = "done", !.status = ResponseStatus(reqs[r])]]
  /\ UNCHANGED <<env, replay, delivered, faults, db>>

\* the request is over; its slot is free again
Close(r) ==
  /\ reqs[r].pc = "done"
  /\ reqs' = [reqs EXCEPT ![r] = IdleReq]
  /\ UNCHANGED <<env, replay, delivered, faults, db>>

SaleStep(r) ==
  \/ SaleReceive(r) \/ SaleVerify(r)
  \/ Retrieve(r) \/ TxByStripeId(r) \/ TxFallback(r) \/ ListingSold(r)
  \/ AssetLookup(r) \/ AssetUpdate(r) \/ SellerLookup(r) \/ PayoutInsert(r)
  \/ FailTx(r) \/ ReleaseListing(r)
  \/ SellerUpsert(r) \/ AccountUpdate(r)
  \/ SaleRespond(r)

(* -------------------------- credits receiver --------------------------- *)

\* a metadata string is <<>> (undefined) or <<s>>, s a sequence of characters
Digits == <<"0", "1", "2", "3", "4", "5", "6", "7", "8", "9">>
IsDigit(c) == \E i \in 1..Len(Digits) : Digits[i] = c
DigitVal(c) == (CHOOSE i \in 1..Len(Digits) : Digits[i] = c) - 1

RECURSIVE DigitsValue(_, _)
DigitsValue(cs, k) == IF k = 0 THEN 0 ELSE DigitsValue(cs, k - 1) * 10 + DigitVal(cs[k])

RECURSIVE DropSpaces(_)
DropSpaces(cs) == IF cs # <<>> /\ Head(cs) = " " THEN DropSpaces(Tail(cs)) ELSE cs

\* parseInt(s, 10): leading blanks, an optional sign, then the longest run of
\* digits; NaN when that run is empty.  What follows the digits is ignored.
ParseInt(str) ==
  LET t == DropSpaces(str)
      signed == t # <<>> /\ Head(t) \in {"-", "+"}
      body == IF signed THEN Tail(t) ELSE t
      n == CHOOSE k \in 0..Len(body) :
             /\ \A i \in 1..k : IsDigit(body[i])
             /\ k < Len(body) => ~IsDigit(body[k + 1])
      v == DigitsValue(body, n)
  IN IF n = 0 THEN [nan |-> TRUE, val |-> 0]
     ELSE [nan |-> FALSE, val |-> IF signed /\ Head(t) = "-" THEN 0 - v ELSE v]

Session(id, ref, total, kind, userId, credits) ==
  [id |-> id, payment_intent |-> ref, amount_total |-> total,
   metadata |-> [kind |-> kind, userId |-> userId, credits |-> credits]]

\* the checkout sessions the credits endpoint may be told about
Sessions ==
  {Session("cs_a", PIRef("string", "pi_c1"), <<200>>, "credits_purchase", "u1", <<<<"2">>>>),
   Session("cs_b", PIRef("object", "pi_c2"), <<100>>, "credits_purchase", "u1", <<<<"1">>>>),
   Session("cs_c", PIRef("none", Null), <<>>, "credits_purchase", "u2", <<<<"2">>>>),
   Session("cs_d", PIRef("string", "pi_c3"), <<200>>, "listing_purchase", "u1", <<<<"2">>>>),
   Session("cs_e", PIRef("string", "pi_c4"), <<200>>, "credits_purchase", Null, <<<<"2">>>>),
   Session("cs_f", PIRef("string", "pi_c5"), <<200>>, "credits_purchase", "u1", <<>>),
   Session("cs_g", PIRef("string", "pi_c6"), <<200>>, "credits_purchase", "u1", <<<<"x">>>>),
   Session("cs_h", PIRef("string", "pi_c7"), <<200>>, "credits_purchase", "u1",
           <<<<"-", "1">>>>),
   Session("cs_i", PIRef("string", "pi_c8"), <<200>>, "credits_purchase", "u2",
           <<<<"1", ".", "5">>>>)}

CreditsEvents ==
  {[type |-> "checkout.session.completed", obj |-> s] : s \in Sessions}
  \cup {[type |-> "checkout.session.expired",
         obj |-> Session("cs_a", PIRef("string", "pi_c1"), <<200>>, "credits_purchase",
                         "u1", <<<<"2">>>>)]}

\* what grantCredits reads from the session
GrantArgs(session) ==
  [userId |-> session.metadata.userId,
   credits |-> ParseInt(Nullish(session.metadata.credits, <<"0">>)),
   amount_cents |-> Nullish(session.amount_total, 0),
   piId |-> IF session.payment_intent.form = "string" THEN session.payment_intent.id
            ELSE IF Truthy(RefId(session.payment_intent))
                 THEN RefId(session.payment_intent) ELSE session.id]

\* admin(): the store client can be created
StoreConfigured ==
  (env.supabase_url \/ env.next_public_supabase_url) /\ env.service_key

CreditsReceive(r) ==
  /\ FreeSlot(r)
  /\ \E sig \in CreditsSigs, ev \in CreditsEvents :
       reqs' = [reqs EXCEPT ![r] = [IdleReq EXCEPT !.pc = "verify", !.receiver = "credits",
                                                   !.sig = sig, !.event = ev]]
  /\ delivered' = delivered + 1
  /\ UNCHANGED <<env, replay, faults, db>>

\* POST: the signature gate; past it the acknowledgment is built and returned
\* and the grant is left to a microtask
CreditsVerify(r) ==
  /\ reqs[r].pc = "verify" /\ reqs[r].receiver = "credits"
  /\ LET g == Gate(env.credits_primary, env.credits_connect, reqs[r].sig) IN
       reqs' = [reqs EXCEPT ![r] =
                  IF g # 0 THEN [@ EXCEPT !.pc = "done", !.status = g, !.event = NoEvent]
                  ELSE [@ EXCEPT !.pc = "task", !.status = 200, !.sig = Null]]
  /\ UNCHANGED <<env, replay, delivered, faults, db>>

\* where grantCredits stands after its synchronous prefix
GrantStart(session) ==
  LET a == GrantArgs(session) IN
  IF session.metadata.kind # "credits_purchase" THEN "done"
  ELSE IF \/ ~Truthy(a.userId)
          \/ a.credits.nan \/ a.credits.val = 0
          \/ a.credits.val <= 0
          \/ ~Truthy(a.piId)
       THEN "done"
  ELSE "ledger_insert"

\* TaskHandles taking every checkout.session.* event
TaskHandlesAnySessionEvent(type) ==
  type \in {"checkout.session.completed", "checkout.session.expired"}

\* the one event type the credits receiver acts on
TaskHandles(type) == type = "checkout.session.completed"

\* the microtask: only checkout.session.completed is handled; an error thrown
\* by grantCredits (admin() without credentials) is caught and logged
CreditsTask(r) ==
  /\ reqs[r].pc = "task"
  /\ reqs' = [reqs EXCEPT ![r] =
       IF ~TaskHandles(reqs[r].event.type) THEN [@ EXCEPT !.pc = "done"]
       ELSE IF ~StoreConfigured THEN [@ EXCEPT !.pc = "done", !.threw = TRUE]
       ELSE [@ EXCEPT !.pc = GrantStart(reqs[r].event.obj)]]
  /\ UNCHANGED <<env, replay, delivered, faults, db>>

LedgerRow(a) ==
  [user_id |-> a.userId, payment_intent |-> a.piId, amount_cents |-> a.amount_cents,
   credits |-> a.credits.val, reason |-> "purchase"]

\* LedgerConflict of a unique index that is not on payment_intent alone
LedgerConflictAnyRow(rows, piId) == rows # {}

\* the unique index on credits_ledger.payment_intent rejects the insert (23505)
LedgerConflict(rows, piId) == \E row \in rows : row.payment_intent = piId

\* 1) the ledger insert: any error but 23505 ends the grant
LedgerInsert(r) ==
  /\ reqs[r].pc = "ledger_insert"
  /\ \E o \in Outcomes :
       /\ Charge(o)
       /\ LET a == GrantArgs(reqs[r].event.obj)
              dup == LedgerConflict(ledger, a.piId)
          IN /\ ledger' = IF o = "ok" /\ ~dup THEN ledger \cup {LedgerRow(a)} ELSE ledger
             /\ reqs' = [reqs EXCEPT ![r] =
                  IF o = "error" THEN Attempt(@, "ledger_insert", o, "done")
                  ELSE IF dup THEN Attempt(@, "ledger_insert", "error", "profile_read")
                  ELSE Attempt(@, "ledger_insert", o, "profile_read")]
  /\ UNCHANGED <<env, replay, delivered, transactions, listings, assets, profiles, payouts>>

\* 2) read the balance: a missing row (PGRST116) counts as 0, any other error
\* ends the grant
ProfileRead(r) ==
  /\ reqs[r].pc = "profile_read"
  /\ \E o \in Outcomes :
       /\ Charge(o)
       /\ LET u == GrantArgs(reqs[r].event.obj).userId IN
          reqs' = [reqs EXCEPT ![r] =
            IF o = "error" THEN Attempt(@, "profile_read", o, "done")
            ELSE [Attempt(@, "profile_read", o, "profile_upsert")
                    EXCEPT !.current = IF u \in DOMAIN profiles /\ profiles[u].exists
                                       THEN profiles[u].credits ELSE 0]]
  /\ UNCHANGED <<env, replay, delivered, db>>

\* upsert({id, credits: next}, onConflict id)
UpsertCredits(ps, userId, next) ==
  [ps EXCEPT ![userId] = [@ EXCEPT !.exists = TRUE, !.credits = next]]

\* 3) write current + credits
ProfileUpsert(r) ==
  /\ reqs[r].pc = "profile_upsert"
  /\ \E o \in Outcomes :
       /\ Charge(o)
       /\ LET a == GrantArgs(reqs[r].event.obj) IN
          profiles' = IF o = "ok"
                      THEN UpsertCredits(profiles, a.userId, reqs[r].current + a.credits.val)
                      ELSE profiles
       /\ reqs' = [reqs EXCEPT ![r] = Attempt(@, "profile_upsert", o, "done")]
  /\ UNCHANGED <<env, replay, delivered, transactions, listings, assets, payouts, ledger>>

CreditsStep(r) ==
  \/ CreditsReceive(r) \/ CreditsVerify(r) \/ CreditsTask(r)
  \/ LedgerInsert(r) \/ ProfileRead(r) \/ ProfileUpsert(r)

(* --------------------------- specifications ---------------------------- *)

\* one request at a time: every delivery is handled in slot 1
Next == \E r \in {1} : SaleStep(r) \/ CreditsStep(r) \/ Close(r)

Spec == Init /\ [][Next]_vars

\* requests interleave at their awaits
NextConc == \E r \in Slots : SaleStep(r) \/ CreditsStep(r) \/ Close(r)

\* the interleaved runs start from the fully configured deployment
InitConc ==
  Init /\ env = Env("whsec_sp", "whsec_sc", "whsec_cp", "whsec_cc", TRUE, TRUE)

SpecConc == InitConc /\ [][NextConc]_vars

\* the credits endpoint alone, its requests interleaving at their awaits
NextGrants == \E r \in Slots : CreditsStep(r) \/ Close(r)

SpecGrants == InitConc /\ [][NextGrants]_vars

(* ------------------------------- claims -------------------------------- *)

\* no request is in flight
Quiet == \A r \in Slots : reqs[r].pc = "idle"

\* request r has passed the signature gate
PastGate(req) == req.pc \notin {"idle", "verify"} /\ req.status \notin {400, 500}

RECURSIVE SumCredits(_)
SumCredits(rows) ==
  IF rows = {} THEN 0
  ELSE LET x == CHOOSE x \in rows : TRUE IN x.credits + SumCredits(rows \ {x})

LedgerOf(u) == {row \in ledger : row.user_id = u}

\* C1: a credit grant is applied once per payment reference.  Whenever no
\* request is in flight and no store call has failed, the ledger holds at most
\* one row per payment reference and every user's stored balance is the
\* initial balance plus the credits of that user's ledger rows: c for one
\* payment reference of c credits however often its event was delivered.
C1_GrantOncePerPaymentRef ==
  (Quiet /\ faults = 0) =>
    /\ \A x, y \in ledger : x.payment_intent = y.payment_intent => x = y
    /\ \A u \in Users :
         profiles[u].credits = InitProfiles[u].credits + SumCredits(LedgerOf(u))

\* the listing row a reversal leaves behind when it applies
Released(row) == [row EXCEPT !.buyer_id = Null, !.status = "active", !.is_active = TRUE]

\* C2: the listing update of a reversal for buyer B on listing L changes no
\* listing but L, changes L only if L's buyer_id is B at that moment, and then
\* resets it to buyer_id = null, status = active, is_active = true; when the
\* store accepts the update and L's buyer_id is B, L is reset.  A listing held
\* by another buyer C keeps its buyer_id, status and is_active.
C2_ReversalOnlyClearsOwnBuyer ==
  [][\A r \in Slots :
       (reqs[r].pc = "release_listing" /\ reqs'[r].pc # "release_listing") =>
         LET a == ReversalArgs(reqs[r].event) IN
         /\ \A l \in ListingIds :
              listings'[l] # listings[l] =>
                /\ l = a.listingId
                /\ listings[l].buyer_id = a.buyerId
                /\ listings'[l] = Released(listings[l])
         /\ \A l \in ListingIds :
              (/\ l = a.listingId /\ listings[l].buyer_id = a.buyerId /\ a.buyerId # Null
               /\ "release_listing" \notin reqs'[r].failed)
                => listings'[l] = Released(listings[l])]_vars

\* C2 witness: a reversal for buyer B has run its listing update, accepted by
\* the store, on a listing that is sold to another buyer C, and C still holds it
C2_Witness ==
  \E r \in Slots :
    /\ reqs[r].pc = "done"
    /\ "release_listing" \in reqs[r].ops \ reqs[r].failed
    /\ LET a == ReversalArgs(reqs[r].event) IN
       /\ a.buyerId = "u1"
       /\ listings[a.listingId].buyer_id = "u2"
       /\ listings[a.listingId].status = "sold"

\* C3: a sale's payout is created once: while no store call has failed, the
\* payouts table never holds the same payout (listing, payout account, amount)
\* twice, however often the payment-succeeded event was delivered
C3_PayoutOncePerSale ==
  faults = 0 => \A i, j \in DOMAIN payouts : payouts[i] = payouts[j] => i = j

\* C4: once the re-fetch of a payment-succeeded event has returned a status
\* other than succeeded, the request changes no row of any table, attempts no
\* store operation and only answers; the payload's own status plays no part
C4_NoSettlementUnlessLiveSucceeded ==
  [][\A r \in Slots :
       (reqs'[r].fresh \notin {Null, "succeeded"}) =>
         /\ db' = db
         /\ reqs'[r].ops = {}
         /\ reqs'[r].pc \in {"respond", "done"}]_vars

\* C4 witness: an answered payment-succeeded event whose payload says
\* succeeded while the re-fetched payment does not
C4_Witness ==
  \E r \in Slots :
    /\ reqs[r].pc = "done" /\ reqs[r].status = 200
    /\ reqs[r].event.type = "payment_intent.succeeded"
    /\ reqs[r].event.obj.status = "succeeded"
    /\ reqs[r].fresh = "requires_payment_method"

\* asset a is the one listing row l refers to (by id, or by the legacy
\* uploaded_image mapping)
Referenced(l, a) ==
  \/ listings[l].source_type = "asset" /\ listings[l].source_id = a
  \/ /\ listings[l].source_type = "uploaded_image"
     /\ assets[a].source_type = "uploaded_image"
     /\ assets[a].source_id = listings[l].source_id

\* C5: settlement effects.  A payment-succeeded event handled alone, whose
\* re-fetched payment is succeeded and names listing L, buyer B and seller S
\* (S with a payout account), captured amount a and fee f < a, and none of
\* whose store calls failed: when the handler has finished, every transaction
\* carrying the payment id is completed (and one carries it if a pending
\* transaction of L and B existed), L has buyer_id = B, status = sold,
\* is_active = false, the asset L refers to is owned by B, and a pending payout
\* of a - f to S's payout account for L exists.
C5_SettlementEffects ==
  \A r \in Slots :
    LET req == reqs[r]
        pi == PaymentIntent(req.event.obj.id)
        L == pi.metadata.mkt_listing_id
        B == pi.metadata.mkt_buyer_id
        S == pi.metadata.mkt_seller_id
        a == IF pi.amount_received = <<>> THEN pi.amount ELSE pi.amount_received[1]
        f == IF pi.application_fee_amount = <<>> THEN 0 ELSE pi.application_fee_amount[1]
    IN (/\ req.pc = "done" /\ req.event.type = "payment_intent.succeeded"
        /\ req.fresh = "succeeded" /\ ~req.threw /\ req.failed = {}
        /\ L # Null /\ B # Null /\ S # Null
        /\ profiles[S].exists /\ profiles[S].stripe_account_id # Null
        /\ f < a)
       =>
       /\ \A t \in TxIds :
            transactions[t].stripe_payment_id = pi.id => transactions[t].status = "completed"
       /\ (\E t \in TxIds : /\ transactions[t].listing_id = L
                            /\ transactions[t].buyer_id = B
                            /\ transactions[t].status = "pending")
            => \E t \in TxIds : transactions[t].stripe_payment_id = pi.id
       /\ listings[L].buyer_id = B /\ listings[L].status = "sold"
       /\ listings[L].is_active = FALSE
       /\ \A as \in AssetIds : Referenced(L, as) => assets[as].owner_id = B
       /\ \E i \in DOMAIN payouts :
            payouts[i] = [listing_id |-> L,
                          stripe_account_id |-> profiles[S].stripe_account_id,
                          amount_cents |-> a - f, status |-> "pending"]

\* C5 witness: the settlement of pi_4 (legacy listing L2, buyer u2, seller s1,
\* captured 2, fee 1) has finished without a failed call: its transaction is
\* completed and the asset of L2 has changed hands
C5_Witness ==
  \E r \in Slots :
    /\ reqs[r].pc = "done" /\ reqs[r].event.type = "payment_intent.succeeded"
    /\ reqs[r].event.obj.id = "pi_4" /\ reqs[r].fresh = "succeeded"
    /\ reqs[r].failed = {} /\ ~reqs[r].threw
    /\ transactions["t4"].status = "completed"
    /\ assets["a2"].owner_id = "u2"
    /\ Len(payouts) = 1

ReversalTypes == {"payment_intent.payment_failed", "payment_intent.canceled",
                  "checkout.session.async_payment_failed", "charge.refunded"}

\* C6: every reversal event releases its listing.  When a reversal event of
\* any of the four types, referring to a payment of listing L by buyer B, has
\* been handled and no store call has failed, the payment's transactions are
\* failed and L is no longer held by B (it was released if B held it).
C6_ReversalReleasesListing ==
  \A r \in Slots :
    LET req == reqs[r]
        P == ReversalArgs(req.event).stripeId
        md == PaymentIntent(P).metadata
    IN (/\ req.pc = "done" /\ req.event.type \in ReversalTypes
        /\ faults = 0
        /\ P \in PaymentIds
        /\ md.mkt_listing_id # Null /\ md.mkt_buyer_id # Null)
       =>
       /\ \A t \in TxIds :
            transactions[t].stripe_payment_id = P => transactions[t].status = "failed"
       /\ listings[md.mkt_listing_id].buyer_id # md.mkt_buyer_id

\* the secrets of request r's receiver
Primary(req) == IF req.receiver = "sale" THEN env.sale_primary ELSE env.credits_primary
Connect(req) == IF req.receiver = "sale" THEN env.sale_connect ELSE env.credits_connect

\* C7: the signature gate of both receivers.  A request leaves the gate for
\* its handler exactly when its payload verifies under a configured secret;
\* with no secret configured the answer is 500, with a payload no configured
\* secret verifies it is 400; a rejected request is over at once, has
\* attempted no store operation, and the gate changes no row.
C7_SignatureGate ==
  [][\A r \in Slots :
       (reqs[r].pc = "verify" /\ reqs'[r].pc # "verify") =>
         LET p == Primary(reqs[r])
             c == Connect(reqs[r])
             verifies == \/ p # Null /\ reqs[r].sig = p
                         \/ c # Null /\ reqs[r].sig = c
         IN /\ db' = db
            /\ verifies <=> reqs'[r].pc # "done"
            /\ verifies => reqs'[r].status \notin {400, 500}
            /\ (p = Null /\ c = Null) => reqs'[r].status = 500
            /\ (~verifies /\ ~(p = Null /\ c = Null)) => reqs'[r].status = 400
            /\ ~verifies => reqs'[r].ops = {}]_vars

\* C7 witness: a payload signed with the connected-account secret was sent to
\* a deployment that configures only the primary secret, and was answered 400
C7_Witness ==
  \E r \in Slots :
    /\ reqs[r].pc = "done" /\ reqs[r].status = 400
    /\ reqs[r].sig \in {"whsec_sc", "whsec_cc"}
    /\ Primary(reqs[r]) # Null /\ Connect(reqs[r]) = Null

\* C8: a request past the signature gate is never answered with a failing
\* status: from any position in a handler its status stays unset or 200, it
\* ends with 200, and a thrown error (the re-fetch failing, the store client
\* not being creatable) leaves it answering or answered, in both receivers
C8_AlwaysAcknowledged ==
  [][\A r \in Slots :
       (reqs[r].pc \notin {"idle", "verify", "done"}) =>
         /\ reqs'[r].status \in {0, 200}
         /\ reqs'[r].pc = "done" => reqs'[r].status = 200
         /\ reqs'[r].receiver = "credits" => reqs'[r].status = 200
         /\ reqs'[r].threw => reqs'[r].pc \in {"respond", "done"}]_vars

\* C8 witness: a sale request whose re-fetch threw has been answered 200
C8_Witness ==
  \E r \in Slots :
    /\ reqs[r].pc = "done" /\ reqs[r].receiver = "sale"
    /\ reqs[r].threw /\ reqs[r].status = 200

\* the event types each receiver's dispatch handles
Handled(receiver) ==
  IF receiver = "sale"
  THEN {"payment_intent.succeeded", "payment_intent.payment_failed",
        "payment_intent.canceled", "checkout.session.async_payment_failed",
        "charge.refunded", "account.updated", "capability.updated",
        "account.application.authorized"}
  ELSE {"checkout.session.completed"}

\* C9: a verified event of a type outside the receiver's dispatch table
\* changes no row, attempts no store operation and is answered 200
C9_UnknownTypeIgnored ==
  [][\A r \in Slots :
       (/\ PastGate(reqs'[r])
        /\ reqs'[r].event.type \notin Handled(reqs'[r].receiver)) =>
         /\ db' = db
         /\ reqs'[r].ops = {}
         /\ reqs'[r].pc = "done" => reqs'[r].status = 200]_vars

\* C9 witness: a customer.created event sent to the sale receiver was answered
C9_Witness ==
  \E r \in Slots :
    /\ reqs[r].pc = "done" /\ reqs[r].status = 200
    /\ reqs[r].receiver = "sale" /\ reqs[r].event.type = "customer.created"

\* C10: the payouts table changes only by one appended row, for a settlement
\* whose payment names a seller with a payout account and whose net amount
\* max(0, amount_received - application_fee) is positive; the row carries that
\* net amount and that account.  A settlement with fee >= amount has net 0 and
\* never looks up the seller or inserts a payout.
C10_NetPayout ==
  [][\A r \in Slots :
       LET pi == PaymentIntent(reqs[r].event.obj.id)
           S == pi.metadata.mkt_seller_id
           a == IF pi.amount_received = <<>> THEN pi.amount ELSE pi.amount_received[1]
           f == IF pi.application_fee_amount = <<>> THEN 0
                ELSE pi.application_fee_amount[1]
           net == IF a - f > 0 THEN a - f ELSE 0
       IN /\ (reqs'[r] # reqs[r] /\ payouts' # payouts) =>
               /\ reqs[r].event.type = "payment_intent.succeeded"
               /\ S # Null /\ net > 0
               /\ profiles[S].exists /\ profiles[S].stripe_account_id # Null
               /\ Len(payouts') = Len(payouts) + 1
               /\ \A i \in DOMAIN payouts : payouts'[i] = payouts[i]
               /\ payouts'[Len(payouts')].amount_cents = net
               /\ payouts'[Len(payouts')].stripe_account_id = profiles[S].stripe_account_id
               /\ payouts'[Len(payouts')].listing_id = pi.metadata.mkt_listing_id
               /\ payouts'[Len(payouts')].status = "pending"
          /\ (reqs'[r].event.type = "payment_intent.succeeded" /\ f >= a) =>
               reqs'[r].ops \cap {"seller_lookup", "payout_insert"} = {}]_vars

\* C10 witness: the settlement of pi_3 (captured 1, fee 2) has finished with
\* the asset transferred and no payout queued
C10_Witness ==
  \E r \in Slots :
    /\ reqs[r].pc = "done" /\ reqs[r].event.type = "payment_intent.succeeded"
    /\ reqs[r].event.obj.id = "pi_3"
    /\ "asset_update" \in reqs[r].ops \ reqs[r].failed
    /\ payouts = <<>>

(* ---- C11 ---- *)

\* the readiness the claim states for the account of request req
ReadyFlag(req) ==
  /\ req.event.obj.charges_enabled
  /\ req.event.obj.payouts_enabled
  /\ req.event.obj.currently_due = 0

\* C11: account readiness. A step of the readiness handler that changes the
\* stripe_verified or is_seller of a profile sets both to
\* verified = charges_enabled AND payouts_enabled AND nothing currently due;
\* and when the handler has run with no store fault, the profile of the user
\* id in the account metadata (if any) carries the account's id, and it and
\* every existing profile with that account id have stripe_verified =
\* is_seller = verified.
C11_AccountReadiness ==
  [][\A r \in Slots :
       LET req == reqs[r] IN
       /\ (req.pc \in {"upsert", "acct_update"} /\ reqs'[r].pc # req.pc) =>
            \A u \in Users :
              (profiles'[u].stripe_verified # profiles[u].stripe_verified
                 \/ profiles'[u].is_seller # profiles[u].is_seller) =>
                /\ profiles'[u].stripe_verified = ReadyFlag(req)
                /\ profiles'[u].is_seller = ReadyFlag(req)
       /\ (req.pc = "acct_update" /\ reqs'[r].pc = "respond" /\ reqs'[r].failed = {}) =>
            LET acct == req.event.obj
                U == acct.metadata.user_id IN
            /\ (U # Null /\ U # "") =>
                 /\ profiles'[U].exists
                 /\ profiles'[U].stripe_account_id = acct.id
                 /\ profiles'[U].stripe_verified = ReadyFlag(req)
                 /\ profiles'[U].is_seller = ReadyFlag(req)
            /\ \A u \in Users :
                 (profiles[u].exists /\ profiles[u].stripe_account_id = acct.id) =>
                   /\ profiles'[u].stripe_verified = ReadyFlag(req)
                   /\ profiles'[u].is_seller = ReadyFlag(req)]_vars

\* an account event with a requirement currently due has been handled for a
\* tagged user: the user's profile is linked to the account and is neither
\* verified nor a seller
C11_Witness ==
  /\ reqs[1].pc = "done"
  /\ reqs[1].event.type = "account.updated"
  /\ reqs[1].event.obj.metadata.user_id = "s2"
  /\ reqs[1].event.obj.currently_due = 1
  /\ reqs[1].failed = {}
  /\ profiles["s2"].stripe_account_id = "acct_2"
  /\ ~profiles["s2"].stripe_verified /\ ~profiles["s2"].is_seller

(* ---- C12 ---- *)

\* a metadata string that is written as a positive integer
PositiveInteger(str) ==
  /\ str # <<>>
  /\ str[1] # <<>>
  /\ \A i \in 1..Len(str[1]) : IsDigit(str[1][i])
  /\ DigitsValue(str[1], Len(str[1])) > 0

\* the session asks for a grant the claim allows
Grantable(session) ==
  /\ session.metadata.kind = "credits_purchase"
  /\ session.metadata.userId # Null /\ session.metadata.userId # ""
  /\ PositiveInteger(session.metadata.credits)

\* C12: credit grant aborts without crediting. While a session that is not
\* tagged credits_purchase, or has no user id, or whose credit count is
\* missing or not a positive integer is handled, no ledger row is inserted
\* and no balance changes; and when the ledger insert or the profile read
\* fails (with an error other than the uniqueness conflict / row-not-found),
\* the grant ends there with every stored balance unchanged.
C12_GrantAborts ==
  [][\A r \in Slots :
       LET req == reqs[r] IN
       (req.pc \in {"task", "ledger_insert", "profile_read", "profile_upsert"}
          /\ reqs'[r] # req) =>
         /\ ~Grantable(req.event.obj) =>
              /\ ledger' = ledger
              /\ \A u \in Users : profiles'[u].credits = profiles[u].credits
         /\ (req.pc \in {"ledger_insert", "profile_read"} /\ faults' # faults) =>
              /\ reqs'[r].pc = "done"
              /\ \A u \in Users : profiles'[u].credits = profiles[u].credits]_vars

(* ---- C13 ---- *)

\* the two grants for u1 with distinct payment references, one per slot, are
\* the only deliveries so far and both have run to their end with no fault
TwoGrantsDone ==
  /\ delivered = 2 /\ faults = 0
  /\ \A r \in {1, 2} : reqs[r].pc = "done" /\ reqs[r].receiver = "credits"
                        /\ reqs[r].event.type = "checkout.session.completed"
  /\ {reqs[1].event.obj.id, reqs[2].event.obj.id} = {"cs_a", "cs_b"}

\* the credits (c1 = 2, c2 = 1) of those sessions, by slot
GrantOf(r) == GrantArgs(reqs[r].event.obj).credits.val

\* C13: two interleaved grants with distinct payment references for the same
\* user insert both ledger rows; when both handlers read the same balance
\* (before either wrote), the stored balance ends at initial+c1 or
\* initial+c2, not initial+c1+c2 - an increment is lost. Only when one read
\* follows the other's write does the balance end at initial+c1+c2.
C13_LostUpdate ==
  TwoGrantsDone =>
    /\ {row.payment_intent : row \in LedgerOf("u1")} = {"pi_c1", "pi_c2"}
    /\ IF reqs[1].current = reqs[2].current
       THEN /\ reqs[1].current = InitProfiles["u1"].credits
            /\ profiles["u1"].credits \in {InitProfiles["u1"].credits + GrantOf(1),
                                          InitProfiles["u1"].credits + GrantOf(2)}
       ELSE profiles["u1"].credits =
              InitProfiles["u1"].credits + GrantOf(1) + GrantOf(2)

\* the lost update: both rows are in the ledger, both handlers read the
\* initial balance, and the balance went up by one grant only
C13_Witness ==
  /\ TwoGrantsDone
  /\ Cardinality(LedgerOf("u1")) = 2
  /\ reqs[1].current = reqs[2].current
  /\ profiles["u1"].credits < InitProfiles["u1"].credits + GrantOf(1) + GrantOf(2)

(* ---- C14 ---- *)

\* C14: settlement steps are independently fault-tolerant. A settlement that
\* began its store writes has, when it ends, attempted the listing update and
\* the listing lookup of the asset transfer whatever the transaction update
\* did, the ownership update unless that lookup failed, and the payout steps
\* (the seller lookup whenever a seller and a positive net are given, the
\* insert whenever the seller lookup gave an account) whatever failed before.
C14_StepsIndependent ==
  \A r \in Slots :
    LET req == reqs[r] IN
    (req.pc \in {"respond", "done"} /\ "tx_by_id" \in req.ops) =>
      /\ "tx_by_id" \in req.failed => "tx_fallback" \in req.ops
      /\ {"listing_sold", "asset_lookup"} \subseteq req.ops
      /\ "asset_lookup" \notin req.failed => "asset_update" \in req.ops
      /\ (Fresh(req).metadata.mkt_seller_id # Null /\ NetCents(Fresh(req)) > 0) =>
           "seller_lookup" \in req.ops
      /\ ("seller_lookup" \in req.ops \ req.failed /\ req.acct # Null) =>
           "payout_insert" \in req.ops

\* a settlement whose transaction update, listing update or listing lookup
\* was rejected has ended having attempted the payout insert
C14_Witness ==
  \E f \in {"tx_by_id", "listing_sold", "asset_lookup"} :
    /\ reqs[1].pc = "done"
    /\ reqs[1].failed = {f}
    /\ {"listing_sold", "asset_lookup", "seller_lookup", "payout_insert"} \subseteq reqs[1].ops
    /\ f = "tx_by_id" => payouts # <<>> /\ "asset_update" \in reqs[1].ops

(* ---- C15 ---- *)

\* C15: transaction completion fallback. The first update of a settlement
\* sets status=completed on exactly the transactions whose stripe_payment_id
\* is the payment id; the fallback update follows only if that update
\* returned no row, and it changes exactly the transactions of the payment's
\* listing and buyer that are pending, setting status=completed and
\* stripe_payment_id to the payment id. No transaction of another listing or
\* buyer, and none already completed or failed, is changed by the fallback.
C15_FallbackScope ==
  [][\A r \in Slots :
       LET req == reqs[r]
           pi == Fresh(req)
           L == pi.metadata.mkt_listing_id
           B == pi.metadata.mkt_buyer_id
       IN
       /\ (req.pc = "tx_by_id" /\ reqs'[r].pc # req.pc) =>
            /\ \A t \in TxIds :
                 transactions'[t] =
                   IF "tx_by_id" \notin reqs'[r].failed
                      /\ transactions[t].stripe_payment_id = pi.id
                   THEN [transactions[t] EXCEPT !.status = "completed"]
                   ELSE transactions[t]
            /\ reqs'[r].pc = "tx_fallback" <=>
                 \/ "tx_by_id" \in reqs'[r].failed
                 \/ \A t \in TxIds : transactions[t].stripe_payment_id # pi.id
            /\ reqs'[r].pc \in {"tx_fallback", "listing_sold"}
       /\ (req.pc = "tx_fallback" /\ reqs'[r].pc # req.pc) =>
            \A t \in TxIds :
              transactions'[t] =
                IF /\ "tx_fallback" \notin reqs'[r].failed
                   /\ transactions[t].listing_id = L
                   /\ transactions[t].buyer_id = B
                   /\ transactions[t].status = "pending"
                THEN [transactions[t] EXCEPT !.status = "completed",
                                             !.stripe_payment_id = pi.id]
                ELSE transactions[t]]_vars

\* the settlement of pi_2, whose id no transaction carried, has completed the
\* pending transaction of its listing and buyer and backfilled the id
C15_Witness ==
  /\ reqs[1].pc = "listing_sold"
  /\ reqs[1].event.obj.id = "pi_2"
  /\ reqs[1].ops = {"tx_by_id", "tx_fallback"} /\ reqs[1].failed = {}
  /\ transactions["t2"].stripe_payment_id = "pi_2"
  /\ transactions["t2"].status = "completed"
  /\ transactions["t1"] = InitTransactions["t1"]

(* ---- C16 ---- *)

\* C16: a reversal event that carries a listing id but no buyer id leaves
\* every listing row unchanged; a step of a reversal changes a listing only
\* when the event gave both a listing id and a buyer id.
C16_NoBuyerNoRelease ==
  [][\A r \in Slots :
       LET req == reqs[r] IN
       (req.pc \in {"fail_tx", "release_listing"} /\ reqs'[r].pc # req.pc) =>
         LET a == ReversalArgs(req.event) IN
         /\ (a.buyerId = Null \/ a.buyerId = "") => listings' = listings
         /\ listings' # listings =>
              /\ a.listingId # Null /\ a.listingId # ""
              /\ a.buyerId # Null /\ a.buyerId # ""]_vars

\* payment_failed for pi_6 (listing L2, no buyer id) has run its listing
\* update while L2 was sold to a buyer, and L2 is still sold to that buyer
C16_Witness ==
  /\ reqs[1].pc = "done"
  /\ reqs[1].event.type = "payment_intent.payment_failed"
  /\ reqs[1].event.obj.id = "pi_6"
  /\ reqs[1].ops = {"fail_tx", "release_listing"} /\ reqs[1].failed = {}
  /\ listings["L2"].status = "sold" /\ listings["L2"].buyer_id # Null

(* ---- C17 ---- *)

\* the reversal events the sale endpoint may be sent
ReversalEvents == {e \in SaleEvents : e.type \in ReversalTypes}

TxStatuses == {"pending", "completed", "failed"}

\* the transactions table with its rows in any status
DupTransactions ==
  {[t \in TxIds |-> [InitTransactions[t] EXCEPT !.status = st[t]]] :
     st \in [TxIds -> TxStatuses]}

\* the listings table with each listing unowned or sold to a buyer
DupListings ==
  {[l \in ListingIds |->
      IF b[l] = Null THEN InitListings[l]
      ELSE [InitListings[l] EXCEPT !.buyer_id = b[l], !.status = "sold",
                                   !.is_active = FALSE]] :
     b \in [ListingIds -> {Null, "u1", "u2"}]}

\* duplicate delivery starts from any such tables, on the fully configured
\* deployment, with a store that rejects nothing
InitDup ==
  /\ env = Env("whsec_sp", "whsec_sc", "whsec_cp", "whsec_cc", TRUE, TRUE)
  /\ reqs = [r \in Slots |-> IdleReq]
  /\ delivered = 0
  /\ faults = MaxFaults
  /\ transactions \in DupTransactions
  /\ listings \in DupListings
  /\ assets = InitAssets
  /\ profiles = InitProfiles
  /\ payouts = <<>>
  /\ ledger = {}
  /\ replay = NoReplay

\* POST: a verifiable reversal event arrives; once one has been delivered,
\* every later delivery is that same event again
DupReceive(r) ==
  /\ FreeSlot(r)
  /\ \E sig \in {"whsec_sp", "whsec_sc"}, ev \in ReversalEvents :
       /\ replay.handled = 0 \/ replay.event = ev
       /\ reqs' = [reqs EXCEPT ![r] = [IdleReq EXCEPT !.pc = "verify", !.receiver = "sale",
                                                   !.sig = sig, !.event = ev]]
       /\ replay' = IF replay.handled = 0
                    THEN Replay(ev, 0, listings, transactions, listings)
                    ELSE replay
  /\ delivered' = delivered + 1
  /\ UNCHANGED <<env, faults, db>>

\* the request is over; the tables are noted as the first handling left them
DupClose(r) ==
  /\ reqs[r].pc = "done"
  /\ reqs' = [reqs EXCEPT ![r] = IdleReq]
  /\ replay' = IF replay.handled = 0
               THEN [replay EXCEPT !.handled = 1, !.transactions = transactions,
                                   !.listings = listings]
               ELSE [replay EXCEPT !.handled = @ + 1]
  /\ UNCHANGED <<env, delivered, faults, db>>

NextDup ==
  \E r \in {1} :
    \/ DupReceive(r) \/ SaleVerify(r) \/ FailTx(r) \/ ReleaseListing(r)
    \/ SaleRespond(r) \/ DupClose(r)

SpecDup == InitDup /\ [][NextDup]_vars

\* C17: reversal is idempotent under duplicate delivery. Once a reversal
\* event has been handled, handling the same event again leaves the
\* transactions and listings tables as the first handling left them; and no
\* handling of it touches assets, payouts or profiles.
C17_ReversalIdempotent ==
  /\ assets = InitAssets /\ payouts = <<>> /\ profiles = InitProfiles
  /\ replay.handled >= 1 =>
       /\ transactions = replay.transactions
       /\ listings = replay.listings

\* payment_failed for pi_1 has been handled twice: the first handling found
\* L1 sold to u1 and released it, and the tables are as it left them
C17_Witness ==
  /\ replay.handled = 2
  /\ replay.event.type = "payment_intent.payment_failed"
  /\ replay.event.obj.id = "pi_1"
  /\ replay.held["L1"].buyer_id = "u1"
  /\ listings["L1"] = InitListings["L1"]
  /\ transactions["t1"].status = "failed"

(* ---- C18 ---- *)

\* the settlements of pi_1 (listing L1, buyer u1) and pi_2 (listing L1, buyer
\* u2), one per slot, are the only deliveries; both payments were found
\* succeeded and both handlers have run to their end with no fault
TwoSettlementsDone ==
  /\ delivered = 2 /\ faults = 0
  /\ \A r \in {1, 2} : /\ reqs[r].pc = "done"
                        /\ reqs[r].event.type = "payment_intent.succeeded"
                        /\ reqs[r].fresh = "succeeded"
                        /\ ~reqs[r].threw
  /\ {reqs[1].event.obj.id, reqs[2].event.obj.id} = {"pi_1", "pi_2"}

\* C18: when two settlements for the same listing L with different buyers
\* have run concurrently to their end, the owner of L's asset is L's buyer.
C18_OwnerIsBuyer ==
  TwoSettlementsDone =>
    \A a \in AssetIds :
      Referenced("L1", a) => assets[a].owner_id = listings["L1"].buyer_id

(* ---- C19 ---- *)

\* the two deliveries so far were for payment pi_1 (listing L1, buyer u1): a
\* settlement that transferred L1's asset a1 to u1 (nothing else makes u1 its
\* owner), then the failure or cancel event that has just been handled with
\* no fault
FailedAfterSettled ==
  /\ delivered = 2 /\ faults = 0
  /\ reqs[1].pc = "done" /\ reqs[1].status = 200
  /\ reqs[1].event.type \in {"payment_intent.payment_failed", "payment_intent.canceled"}
  /\ reqs[1].event.obj.id = "pi_1"
  /\ assets["a1"].owner_id = "u1"

\* C19: a failure or cancel event handled after the settlement of the same
\* payment (listing L, buyer B) does not undo it while B keeps the asset: L
\* is not back in the active, unowned state and the payment's transaction
\* is not failed.
C19_SettlementNotReopened ==
  FailedAfterSettled =>
    /\ ~(listings["L1"].status = "active" /\ listings["L1"].buyer_id = Null)
    /\ transactions["t1"].status # "failed"

(* ---- C20 ---- *)

\* C20: handlers change only their own profile columns. A step of the
\* account readiness handler leaves the credits and the email of every
\* existing profile unchanged; a step of the credit grant leaves the
\* stripe_account_id, stripe_verified and is_seller of every profile
\* unchanged.
C20_OwnColumnsOnly ==
  [][\A r \in Slots :
       LET req == reqs[r] IN
       /\ (req.pc \in {"upsert", "acct_update"} /\ reqs'[r].pc # req.pc) =>
            \A u \in Users :
              profiles[u].exists =>
                /\ profiles'[u].credits = profiles[u].credits
                /\ profiles'[u].email = profiles[u].email
       /\ (req.pc \in {"ledger_insert", "profile_read", "profile_upsert"}
             /\ reqs'[r].pc # req.pc) =>
            \A u \in Users :
              /\ profiles'[u].stripe_account_id = profiles[u].stripe_account_id
              /\ profiles'[u].stripe_verified = profiles[u].stripe_verified
              /\ profiles'[u].is_seller = profiles[u].is_seller]_vars

====
